---- MODULE Spec2Model ----
(***************************************************************************)
(* MotifPairMeth (memopair): the pileup chunk reader (src/src/pileup.rs),  *)
(* the contig motif scans (src/src/sequence.rs) and the motif pair         *)
(* evaluator (src/src/main.rs).                                            *)
(*                                                                         *)
(* The specifications share the variables of this module:                  *)
(*   Spec      the PileupChunkReader driven by next_chunk / load_n_chunks  *)
(*   SpecScan  Contig::find_motif_indeces / find_complement_motif_indeces  *)
(*   SpecEval  motif_methylation_pattern on one contig and one motif pair  *)
(*   SpecWrite MotifPairRecordWriter::write_record on one pair of records  *)
(*   SpecIupac IupacBase::complement over the bases of a motif             *)
(*   SpecLoop  the batch loop of memopair over the PileupChunkReader       *)
(*   SpecBuild GenomeWorkSpaceBuilder over the chunks of one batch         *)
(* Each one holds the variables of the others at their idle values.        *)
(***************************************************************************)
EXTENDS Integers, Sequences, FiniteSets, TLC

VARIABLES
    \* ---- PileupChunkReader (pileup.rs:36-41) and its input
    stream,        \* the lines of the pileup file, as csv ByteRecords
    min_cov,       \* PileupChunkReader.min_cov
    rd_pos,        \* csv::Reader: number of records already read
    rd_fields,     \* csv::Reader: field count of the first record, <<>> before it
    buffer,        \* PileupChunkReader.buffer (VecDeque<ByteRecord>)
    eof_reached,   \* PileupChunkReader.eof_reached
    panicked,      \* the thread has panicked (an unwrap failed)
    chunks,        \* every PileupChunk returned so far, in order
    last_n,        \* N of the last load_n_chunks call that returned, -1 before
    last_ret,      \* number of chunks it returned (0 for None)
    \* ---- Contig scans
    sc_sequence,   \* Contig.sequence
    sc_motif,      \* the Motif scanned for
    sc_op,         \* which scan ran last: "none", "find", "complement"
    sc_result,     \* its Option<Vec<usize>>: <<>> for None, <<indices>> for Some
    \* ---- motif_methylation_pattern
    ev_sequence,   \* contig.sequence
    ev_records,    \* contig.records: key (position, strand, mod_type) -> record
    ev_pair,       \* the MotifPair
    ev_checks,     \* the build checks integer overflow (debug) or wraps (release)
    ev_pc,         \* "idle", "start", "done" or the panic reached
    ev_rows,       \* the rows write_record wrote, in order
    \* ---- write_record
    wr_record_1,   \* the first PileupRecord
    wr_record_2,   \* the second PileupRecord
    wr_checks,     \* the build checks integer overflow
    wr_pc,         \* "idle", "start", "written" or "panic"
    wr_row,        \* the row written, <<>> before
    \* ---- IupacBase::complement
    iu_original,   \* the bases of a motif
    iu_bases,      \* the bases after iu_applied complements of each
    iu_applied,    \* how often complement was applied to each base
    \* ---- the batch loop of memopair (main.rs:68-100)
    mp_pc,         \* "idle", "loop", "done" (left on eof_reached), "aborted"
    \* ---- GenomeWorkSpaceBuilder (data.rs)
    ws_batch,      \* the chunks of the batch, in order
    ws_next,       \* index of the chunk the loop of main.rs:75-82 is at
    ws_pc,         \* "idle", "add_contig", "push_records", "build", "built"
    ws_contigs     \* builder.contigs: reference -> Contig.records

rdVars == <<stream, min_cov, rd_pos, rd_fields, buffer, eof_reached, panicked,
            chunks, last_n, last_ret>>
scVars == <<sc_sequence, sc_motif, sc_op, sc_result>>
evVars == <<ev_sequence, ev_records, ev_pair, ev_checks, ev_pc, ev_rows>>
wrVars == <<wr_record_1, wr_record_2, wr_checks, wr_pc, wr_row>>
iuVars == <<iu_original, iu_bases, iu_applied>>
mpVars == <<mp_pc>>
wsVars == <<ws_batch, ws_next, ws_pc, ws_contigs>>
vars == <<rdVars, scVars, evVars, wrVars, iuVars, mpVars, wsVars>>

\* The variables a specification holds idle.
notRdVars == <<scVars, evVars, wrVars, iuVars, mpVars, wsVars>>
notScVars == <<rdVars, evVars, wrVars, iuVars, mpVars, wsVars>>
notEvVars == <<rdVars, scVars, wrVars, iuVars, mpVars, wsVars>>
notWrVars == <<rdVars, scVars, evVars, iuVars, mpVars, wsVars>>
notIuVars == <<rdVars, scVars, evVars, wrVars, mpVars, wsVars>>
notWsVars == <<rdVars, scVars, evVars, wrVars, iuVars, mpVars>>
notLoopVars == <<scVars, evVars, wrVars, iuVars, wsVars>>

\* ------------------------------------------------------------------ bounds
MaxLines == 3      \* lines in the pileup stream
MaxN == 2          \* largest N passed to load_n_chunks
MaxSeqLen == 4     \* length of the contig sequence scanned (SpecScan)
MaxContigLen == 4  \* length of the contig evaluated (SpecEval)
MaxMotifLen == 2   \* number of bases complemented (SpecIupac)

\* ------------------------------------------------------- generic helpers
None == <<>>
Some(x) == <<x>>

RECURSIVE Concat(_)
Concat(ss) == IF ss = <<>> THEN <<>> ELSE Head(ss) \o Concat(Tail(ss))

\* =========================================================================
\* Pileup lines
\* =========================================================================
\* A field is a sequence of bytes; a byte is a one-character string, and
\* "0xFF" stands for a byte that is not valid UTF-8.
InvalidByte == "0xFF"
Digit == [c \in {"0", "1", "2", "3", "4", "5", "6", "7", "8", "9"} |->
            CASE c = "0" -> 0 [] c = "1" -> 1 [] c = "2" -> 2 [] c = "3" -> 3
              [] c = "4" -> 4 [] c = "5" -> 5 [] c = "6" -> 6 [] c = "7" -> 7
              [] c = "8" -> 8 [] c = "9" -> 9]
DigitChar == <<"0", "1", "2", "3", "4", "5", "6", "7", "8", "9">>

\* ByteRecord::get(i).unwrap_or(b""): a column past the end reads as empty.
Get(record, i) ==
    IF i >= record.ncols THEN <<>>
    ELSE CASE i = 0 -> record.c0
           [] i = 1 -> record.c1
           [] i = 3 -> record.c3
           [] i = 5 -> record.c5
           [] i = 9 -> record.c9
           [] i = 11 -> record.c11
           [] i = 12 -> record.c12
           [] i = 17 -> record.c17
           [] OTHER -> <<>>

\* std::str::from_utf8(bytes).is_ok()
Utf8Valid(bytes) == \A i \in 1..Len(bytes) : bytes[i] # InvalidByte

\* atoi::atoi: the value of the leading decimal digits, None when there is none.
RECURSIVE AtoiFrom(_, _, _)
AtoiFrom(bytes, i, acc) ==
    IF i > Len(bytes) \/ bytes[i] \notin DOMAIN Digit THEN acc
    ELSE AtoiFrom(bytes, i + 1, 10 * acc + Digit[bytes[i]])
Atoi(bytes) ==
    IF bytes = <<>> \/ bytes[1] \notin DOMAIN Digit THEN None
    ELSE Some(AtoiFrom(bytes, 1, 0))

\* str::parse::<Strand>() and str::parse::<ModType>()
ParseStrand(bytes) ==
    IF bytes = <<"+">> THEN Some("Positive")
    ELSE IF bytes = <<"-">> THEN Some("Negative")
    ELSE None
ParseModType(bytes) ==
    IF bytes = <<"a">> THEN Some("SixMA")
    ELSE IF bytes = <<"m">> THEN Some("FiveMC")
    ELSE None

\* parse_and_validate_pileup_record, lines 145-170: the columns after the
\* coverage column. Some(PileupRecord) for Ok, None for Err.
ParseColumns(record, n_valid_cov) ==
    LET position == Atoi(Get(record, 1))
        strand == ParseStrand(Get(record, 5))
        mod_type == ParseModType(Get(record, 3))
        n_mod == Atoi(Get(record, 11))
        n_canonical == Atoi(Get(record, 12))
        n_diff == Atoi(Get(record, 17))
    IN  IF ~Utf8Valid(Get(record, 0)) THEN None
        ELSE IF position = None THEN None
        ELSE IF ~Utf8Valid(Get(record, 5)) \/ strand = None THEN None
        ELSE IF ~Utf8Valid(Get(record, 3)) \/ mod_type = None THEN None
        ELSE IF n_mod = None THEN None
        ELSE IF n_canonical = None THEN None
        ELSE IF n_diff = None THEN None
        ELSE Some([reference |-> Get(record, 0), position |-> position[1],
                   strand |-> strand[1], mod_type |-> mod_type[1],
                   n_mod |-> n_mod[1], n_valid_cov |-> n_valid_cov,
                   n_canonical |-> n_canonical[1], n_diff |-> n_diff[1]])

\* parse_and_validate_pileup_record, lines 140-144, given the parsed coverage
\* column: Err when it is no integer or below min_cov.
CheckCoverage(record, mc, n_valid_cov) ==
    IF n_valid_cov = None THEN None
    ELSE IF n_valid_cov[1] < mc THEN None
    ELSE ParseColumns(record, n_valid_cov[1])

\* Mutant: the minimum-coverage test is left out.
parse_and_validate_no_min_cov(record, mc) ==
    CheckCoverage(record, 0, Atoi(Get(record, 9)))

parse_and_validate_pileup_record(record, mc) ==
    CheckCoverage(record, mc, Atoi(Get(record, 9)))

\* =========================================================================
\* PileupChunkReader
\* =========================================================================
\* The reader as a value: csv::Reader's cursor and expected field count, the
\* lookahead buffer, the end-of-stream flag, and whether an unwrap panicked.
Self == [pos |-> rd_pos, fields |-> rd_fields, buffer |-> buffer,
         eof_reached |-> eof_reached, panicked |-> panicked]

\* Mutant: the end of the stream is reported as an error, never as Ok(false).
read_byte_record_never_eof(self) ==
    IF self.pos >= Len(stream)
    THEN [res |-> "err", self |-> self, record |-> <<>>]
    ELSE IF self.fields = None
    THEN [res |-> "ok", record |-> stream[self.pos + 1],
          self |-> [self EXCEPT !.pos = @ + 1,
                                !.fields = Some(stream[self.pos + 1].ncols)]]
    ELSE IF stream[self.pos + 1].ncols # self.fields[1]
    THEN [res |-> "err", record |-> stream[self.pos + 1],
          self |-> [self EXCEPT !.pos = @ + 1]]
    ELSE [res |-> "ok", record |-> stream[self.pos + 1],
          self |-> [self EXCEPT !.pos = @ + 1]]

\* csv::Reader::read_byte_record. The reader is built by ReaderBuilder::new()
\* with has_headers(false) and flexible left at its default (false): a record
\* whose field count differs from the first record's is consumed and returned
\* as Err(UnequalLengths). res is "ok" (Ok(true)), "eof" (Ok(false)) or "err".
read_byte_record(self) ==
    IF self.pos >= Len(stream)
    THEN [res |-> "eof", self |-> self, record |-> <<>>]
    ELSE IF self.fields = None
    THEN [res |-> "ok", record |-> stream[self.pos + 1],
          self |-> [self EXCEPT !.pos = @ + 1,
                                !.fields = Some(stream[self.pos + 1].ncols)]]
    ELSE IF stream[self.pos + 1].ncols # self.fields[1]
    THEN [res |-> "err", record |-> stream[self.pos + 1],
          self |-> [self EXCEPT !.pos = @ + 1]]
    ELSE [res |-> "ok", record |-> stream[self.pos + 1],
          self |-> [self EXCEPT !.pos = @ + 1]]

\* Mutant: the line of another reference that ends a chunk is not kept.
PushFrontDropped(buf, record) == buf

\* VecDeque::push_front
PushFront(buf, record) == <<record>> \o buf

\* if let Ok(parsed_record) = .. { parsed_records.push(parsed_record) }
PushIfOk(parsed_records, parsed) ==
    IF parsed = None THEN parsed_records ELSE Append(parsed_records, parsed[1])

PushParsed(parsed_records, record) ==
    PushIfOk(parsed_records, parse_and_validate_pileup_record(record, min_cov))

\* The match on current_reference (lines 69-78 and 93-102): TRUE when the
\* record belongs to another reference than the chunk being assembled.
OtherReference(current_reference, reference) ==
    current_reference # None /\ reference # current_reference[1]

SetReference(current_reference, reference) ==
    IF current_reference = None THEN Some(reference) ELSE current_reference

\* from_utf8(record.get(0).unwrap_or(b"")).unwrap_or("")
ReferenceOrEmpty(record) ==
    IF Utf8Valid(Get(record, 0)) THEN Get(record, 0) ELSE <<>>

\* next_chunk, lines 63-83: the records of the lookahead buffer.
RECURSIVE DrainBuffer(_, _, _)
DrainBuffer(self, current_reference, parsed_records) ==
    IF self.buffer = <<>>
    THEN [self |-> self, current_reference |-> current_reference,
          parsed_records |-> parsed_records]
    ELSE IF OtherReference(current_reference, ReferenceOrEmpty(Head(self.buffer)))
    THEN [self |-> [self EXCEPT !.buffer = PushFront(Tail(@), Head(self.buffer))],
          current_reference |-> current_reference,
          parsed_records |-> parsed_records]
    ELSE DrainBuffer([self EXCEPT !.buffer = Tail(@)],
                     SetReference(current_reference,
                                  ReferenceOrEmpty(Head(self.buffer))),
                     PushParsed(parsed_records, Head(self.buffer)))

\* next_chunk, lines 85-107: the records read from the stream. ReadStep is one
\* turn of the loop on the result r of read_byte_record; ReadLoop takes r and
\* its arguments from one-element sets, which makes them values computed once.
RECURSIVE ReadLoop(_, _, _)
RECURSIVE ReadStep(_, _, _)
ReadLoop(self, current_reference, parsed_records) ==
    CHOOSE read \in {ReadStep(r, cr, pr) : r \in {read_byte_record(self)},
                                            cr \in {current_reference},
                                            pr \in {parsed_records}} : TRUE

ReadStep(r, current_reference, parsed_records) ==
    IF r.res = "err"
    THEN [self |-> r.self, parsed_records |-> parsed_records]
    ELSE IF r.res = "eof"
    THEN [self |-> [r.self EXCEPT !.eof_reached = TRUE],
          parsed_records |-> parsed_records]
    ELSE IF ~Utf8Valid(Get(r.record, 0))
    THEN [self |-> [r.self EXCEPT !.panicked = TRUE],
          parsed_records |-> parsed_records]
    ELSE IF OtherReference(current_reference, Get(r.record, 0))
    THEN [self |-> [r.self EXCEPT !.buffer = PushFront(@, r.record)],
          parsed_records |-> parsed_records]
    ELSE ReadLoop(r.self,
                  SetReference(current_reference, Get(r.record, 0)),
                  PushParsed(parsed_records, r.record))

\* next_chunk, lines 108-116: None for no record, else the chunk (nothing is
\* returned when the call panicked).
ChunkOf(read) ==
    [self |-> read.self,
     out |-> IF read.self.panicked \/ read.parsed_records = <<>> THEN None
             ELSE Some([reference |-> read.parsed_records[1].reference,
                        records |-> read.parsed_records])]

AfterDrain(drained) ==
    CHOOSE c \in {ChunkOf(read) :
                    read \in {ReadLoop(drained.self, drained.current_reference,
                                       drained.parsed_records)}} : TRUE

\* PileupChunkReader::next_chunk: the reader afterwards and the
\* Option<PileupChunk> returned.
next_chunk(self) ==
    CHOOSE c \in {AfterDrain(drained) :
                    drained \in {DrainBuffer(self, None, <<>>)}} : TRUE

\* PileupChunkReader::load_n_chunks: the loop of lines 121-127 with `left`
\* iterations to go, c the result of its next_chunk call (LoadLoop takes it
\* from a one-element set, as ReadLoop does).
RECURSIVE LoadLoop(_, _, _)
RECURSIVE LoadStep(_, _, _)
LoadLoop(self, left, got) ==
    CHOOSE loaded \in {LoadStep(c, left, g) : c \in {next_chunk(self)},
                                              g \in {got}} : TRUE

LoadStep(c, left, got) ==
    IF c.self.panicked \/ c.out = None
    THEN [self |-> c.self, chunks |-> got]
    ELSE IF left = 1
    THEN [self |-> c.self, chunks |-> Append(got, c.out[1])]
    ELSE LoadLoop(c.self, left - 1, Append(got, c.out[1]))

load_n_chunks(self, n) ==
    IF n = 0 THEN [self |-> self, chunks |-> <<>>]
    ELSE LoadLoop(self, n, <<>>)

\* ---------------------------------------------------------- the input
\* One line of the pileup file at position p of reference ref. Every line has
\* its own position, so that two lines are never the same record.
MakeLine(kind, ref, p) ==
    LET base == [ncols |-> 18, c0 |-> <<ref>>, c1 |-> <<DigitChar[p + 1]>>,
                 c3 |-> <<"a">>, c5 |-> <<"+">>, c9 |-> <<"2">>, c11 |-> <<"1">>,
                 c12 |-> <<"1", "0">>, c17 |-> <<"0">>]
    IN  CASE kind = "ok" -> base
          [] kind = "cov1" -> [base EXCEPT !.c9 = <<"1">>]
          [] kind = "nmod3" -> [base EXCEPT !.c11 = <<"3">>]
          [] kind = "short" -> [base EXCEPT !.ncols = 10]
          [] kind = "strand?" -> [base EXCEPT !.c5 = <<"?">>]
          [] kind = "cov?" -> [base EXCEPT !.c9 = <<"x">>]
          [] kind = "mod?" -> [base EXCEPT !.c3 = <<"h">>]
          [] kind = "strand0xFF" -> [base EXCEPT !.c5 = <<InvalidByte>>]
          [] kind = "ref0xFF" -> [base EXCEPT !.c0 = <<InvalidByte>>]

Shapes ==
    ({"ok", "cov1", "nmod3", "short", "strand?", "cov?", "mod?", "strand0xFF"}
        \X {"A"})
    \cup ({"ok", "cov1", "short"} \X {"B"})
    \cup {<<"ref0xFF", "A">>}

MinCovs == {1, 2}

ScanIdle ==
    /\ sc_sequence = <<>>
    /\ sc_motif = <<>>
    /\ sc_op = "none"
    /\ sc_result = <<>>

EvalIdle ==
    /\ ev_sequence = <<>>
    /\ ev_records = <<>>
    /\ ev_pair = <<>>
    /\ ev_checks = FALSE
    /\ ev_pc = "idle"
    /\ ev_rows = <<>>

WriteIdle ==
    /\ wr_record_1 = <<>>
    /\ wr_record_2 = <<>>
    /\ wr_checks = FALSE
    /\ wr_pc = "idle"
    /\ wr_row = <<>>

IupacIdle ==
    /\ iu_original = <<>>
    /\ iu_bases = <<>>
    /\ iu_applied = 0

LoopIdle == mp_pc = "idle"

BuildIdle ==
    /\ ws_batch = <<>>
    /\ ws_next = 0
    /\ ws_pc = "idle"
    /\ ws_contigs = <<>>

ReaderIdle ==
    /\ stream = <<>>
    /\ min_cov = 0
    /\ rd_pos = 0
    /\ rd_fields = None
    /\ buffer = <<>>
    /\ eof_reached = FALSE
    /\ panicked = FALSE
    /\ chunks = <<>>
    /\ last_n = -1
    /\ last_ret = 0

\* PileupChunkReader::new over a stream (pileup.rs:45-56)
Init ==
    /\ \E n \in 1..MaxLines : \E f \in [1..n -> Shapes] :
          stream = [i \in 1..n |-> MakeLine(f[i][1], f[i][2], i - 1)]
    /\ min_cov \in MinCovs
    /\ rd_pos = 0
    /\ rd_fields = None
    /\ buffer = <<>>
    /\ eof_reached = FALSE
    /\ panicked = FALSE
    /\ chunks = <<>>
    /\ last_n = -1
    /\ last_ret = 0
    /\ ScanIdle
    /\ EvalIdle
    /\ WriteIdle
    /\ IupacIdle
    /\ BuildIdle
    /\ LoopIdle

SetReader(self) ==
    /\ rd_pos' = self.pos
    /\ rd_fields' = self.fields
    /\ buffer' = self.buffer
    /\ eof_reached' = self.eof_reached
    /\ panicked' = self.panicked

\* A call of next_chunk by the owner of the reader, c its result.
NextChunkReturns(c) ==
    /\ SetReader(c.self)
    /\ chunks' = chunks \o c.out

CallNextChunk ==
    /\ ~panicked
    /\ NextChunkReturns(next_chunk(Self))
    /\ UNCHANGED <<stream, min_cov, last_n, last_ret, notRdVars>>

\* A call of load_n_chunks(n), r its result; memopair calls it with n = 1
\* (main.rs:71).
LoadNChunksReturns(n, r) ==
    /\ SetReader(r.self)
    /\ chunks' = chunks \o r.chunks
    /\ IF r.self.panicked
       THEN UNCHANGED <<last_n, last_ret>>
       ELSE last_n' = n /\ last_ret' = Len(r.chunks)

CallLoadNChunks ==
    /\ ~panicked
    /\ \E n \in 1..MaxN : LoadNChunksReturns(n, load_n_chunks(Self, n))
    /\ UNCHANGED <<stream, min_cov, notRdVars>>

Next == CallNextChunk \/ CallLoadNChunks

Spec == Init /\ [][Next]_vars

\* ------------------------------------------------------ specification SpecLoop
\* memopair up to its loop (main.rs:53-66): the reader is new.
InitLoop ==
    /\ \E n \in 1..MaxLines : \E f \in [1..n -> Shapes] :
          stream = [i \in 1..n |-> MakeLine(f[i][1], f[i][2], i - 1)]
    /\ min_cov \in MinCovs
    /\ rd_pos = 0
    /\ rd_fields = None
    /\ buffer = <<>>
    /\ eof_reached = FALSE
    /\ panicked = FALSE
    /\ chunks = <<>>
    /\ last_n = -1
    /\ last_ret = 0
    /\ mp_pc = "loop"
    /\ ScanIdle
    /\ EvalIdle
    /\ WriteIdle
    /\ IupacIdle
    /\ BuildIdle

\* One pass of the loop, r the result of load_n_chunks(1): a panic of the
\* reader ends the run; so may the workspace and the evaluation of a batch
\* that has a chunk (the unwrap of main.rs:80, the `?` of main.rs:87);
\* otherwise the loop is left when eof_reached is set (main.rs:97-99).
BatchReturns(r, aborted) ==
    /\ aborted => r.chunks # <<>>
    /\ LoadNChunksReturns(1, r)
    /\ mp_pc' = IF r.self.panicked \/ aborted THEN "aborted"
                ELSE IF r.self.eof_reached THEN "done"
                ELSE "loop"

Batch ==
    /\ mp_pc = "loop"
    /\ \E r \in {load_n_chunks(Self, 1)} : \E aborted \in BOOLEAN :
          BatchReturns(r, aborted)
    /\ UNCHANGED <<stream, min_cov, notLoopVars>>

NextLoop == Batch

\* The loop is sequential code: it keeps taking its next pass.
SpecLoop == InitLoop /\ [][NextLoop]_vars /\ WF_vars(NextLoop)

\* =========================================================================
\* Claims about the reader (specification Spec)
\* =========================================================================
\* Line i is read by the csv reader (it has the field count of the first line)
\* and passes parse_and_validate_pileup_record.
Accepted(i) ==
    /\ stream[i].ncols = stream[1].ncols
    /\ parse_and_validate_pileup_record(stream[i], min_cov) # None

\* The records of the accepted lines i..Len(stream), in stream order.
RECURSIVE ParsedLines(_)
ParsedLines(i) ==
    IF i > Len(stream) THEN <<>>
    ELSE IF Accepted(i)
    THEN <<parse_and_validate_pileup_record(stream[i], min_cov)[1]>>
             \o ParsedLines(i + 1)
    ELSE ParsedLines(i + 1)

\* The records of all chunks returned so far, in emission order.
EmittedRecords == Concat([k \in 1..Len(chunks) |-> chunks[k].records])

\* The record of the line waiting in the lookahead buffer, if it has one.
BufferRecords == IF buffer = <<>> THEN <<>> ELSE PushParsed(<<>>, buffer[1])

RunStart(i) == i = 1 \/ stream[i].c0 # stream[i - 1].c0
RunOf(i) == Cardinality({j \in 1..i : RunStart(j)})
NumRuns == IF stream = <<>> THEN 0 ELSE RunOf(Len(stream))

\* The records of the lines of run k that pass validation, from line i on.
RECURSIVE RunRecords(_, _)
RunRecords(k, i) ==
    IF i > Len(stream) THEN <<>>
    ELSE IF RunOf(i) = k
    THEN PushParsed(<<>>, stream[i]) \o RunRecords(k, i + 1)
    ELSE RunRecords(k, i + 1)

\* C2 (as claimed): when every run holds a line that passes validation, the
\* exhausted reader has yielded exactly one chunk per run, in stream order,
\* the k-th holding the records of run k and only records of its reference.
OneChunkPerRun ==
    (eof_reached /\ \A k \in 1..NumRuns : RunRecords(k, 1) # <<>>) =>
        /\ Len(chunks) = NumRuns
        /\ \A k \in 1..Len(chunks) :
              /\ k <= NumRuns => chunks[k].records = RunRecords(k, 1)
              /\ \A j \in 1..Len(chunks[k].records) :
                    chunks[k].records[j].reference = chunks[k].reference

\* Every line has the field count of the first: the csv reader returns no Err.
UniformFields == \A i \in 1..Len(stream) : stream[i].ncols = stream[1].ncols

\* C3 (as claimed, here only for streams the csv reader reads without error):
\* a load_n_chunks(N) that returned fewer than N chunks found the stream
\* exhausted and left eof_reached true.
FewerThanNMeansExhausted ==
    (UniformFields /\ last_n >= 1 /\ last_ret < last_n) =>
        (eof_reached /\ rd_pos = Len(stream) /\ buffer = <<>>)

\* C6 (as claimed): a line that fails parsing is skipped silently: the reader
\* never panics, only accepted lines are emitted, and when the stream is
\* exhausted every accepted line has been emitted.
BadLinesSkippedSilently ==
    /\ ~panicked
    /\ \A j \in 1..Len(EmittedRecords) :
          \E i \in 1..Len(stream) :
              Accepted(i) /\ PushParsed(<<>>, stream[i]) = <<EmittedRecords[j]>>
    /\ (eof_reached => EmittedRecords = ParsedLines(1))

\* C7: every emitted record has n_valid_cov >= min_cov, and a line whose
\* coverage column is below min_cov is in no emitted chunk (a line is known
\* by its position).
MinCovRespected ==
    /\ \A j \in 1..Len(EmittedRecords) : EmittedRecords[j].n_valid_cov >= min_cov
    /\ \A i \in 1..Len(stream) :
          (Atoi(stream[i].c9) # None /\ Atoi(stream[i].c9)[1] < min_cov) =>
              \A j \in 1..Len(EmittedRecords) : EmittedRecords[j].position # i - 1

\* C7 witness: the stream is exhausted, a chunk went out, and a line that
\* only the coverage test rejects was read.
WitnessLowCoverageDropped ==
    /\ eof_reached
    /\ chunks # <<>>
    /\ \E i \in 1..Len(stream) :
          /\ stream[i].ncols = stream[1].ncols
          /\ parse_and_validate_pileup_record(stream[i], 0) # None
          /\ parse_and_validate_pileup_record(stream[i], min_cov) = None

\* C8 (as claimed): every emitted record has n_mod <= n_valid_cov.
NModWithinCoverage ==
    \A j \in 1..Len(EmittedRecords) :
        EmittedRecords[j].n_mod <= EmittedRecords[j].n_valid_cov

\* =========================================================================
\* IUPAC alphabet, motifs and the contig scans
\* =========================================================================
Bases == {"A", "C", "G", "T"}

IupacBase == {"A", "C", "G", "T", "R", "Y", "S", "W", "K", "M", "B", "D", "H",
              "V", "N"}

\* IupacBase::to_regex, as the set of sequence characters the pattern matches
\* ("." matches every character of a sequence line).
to_regex(b) ==
    CASE b = "A" -> {"A"}
      [] b = "C" -> {"C"}
      [] b = "G" -> {"G"}
      [] b = "T" -> {"T"}
      [] b = "R" -> {"A", "G"}
      [] b = "Y" -> {"C", "T"}
      [] b = "S" -> {"G", "C"}
      [] b = "W" -> {"A", "T"}
      [] b = "K" -> {"G", "T"}
      [] b = "M" -> {"A", "C"}
      [] b = "B" -> {"C", "G", "T"}
      [] b = "D" -> {"A", "G", "T"}
      [] b = "H" -> {"A", "C", "T"}
      [] b = "V" -> {"A", "C", "G"}
      [] b = "N" -> Bases

\* Mutant: D is complemented to V.
complement_d_to_v(b) ==
    CASE b = "A" -> "T"
      [] b = "C" -> "G"
      [] b = "G" -> "C"
      [] b = "T" -> "A"
      [] b = "R" -> "Y"
      [] b = "Y" -> "R"
      [] b = "S" -> "S"
      [] b = "W" -> "W"
      [] b = "K" -> "M"
      [] b = "M" -> "K"
      [] b = "B" -> "V"
      [] b = "D" -> "V"
      [] b = "H" -> "D"
      [] b = "V" -> "B"
      [] b = "N" -> "N"

\* IupacBase::complement
complement(b) ==
    CASE b = "A" -> "T"
      [] b = "C" -> "G"
      [] b = "G" -> "C"
      [] b = "T" -> "A"
      [] b = "R" -> "Y"
      [] b = "Y" -> "R"
      [] b = "S" -> "S"
      [] b = "W" -> "W"
      [] b = "K" -> "M"
      [] b = "M" -> "K"
      [] b = "B" -> "V"
      [] b = "D" -> "H"
      [] b = "H" -> "D"
      [] b = "V" -> "B"
      [] b = "N" -> "N"

\* Motif { sequence, mod_type, position }
Motif(sequence, mod_type, position) ==
    [sequence |-> sequence, mod_type |-> mod_type, position |-> position]

\* Motif::regex: the to_regex of each base, in sequence order.
regex(motif) == [i \in 1..Len(motif.sequence) |-> to_regex(motif.sequence[i])]

\* Motif::reverse_complement_sequence
reverse_complement_sequence(motif) ==
    [i \in 1..Len(motif.sequence) |->
        complement(motif.sequence[Len(motif.sequence) + 1 - i])]

\* Motif::reverse_complement: position becomes length - 1 - position.
reverse_complement(motif) ==
    Motif(reverse_complement_sequence(motif), motif.mod_type,
          Len(motif.sequence) - 1 - motif.position)

\* Regex: the pattern re matches text at the 0-based offset start.
IsMatchAt(text, re, start) ==
    /\ start + Len(re) <= Len(text)
    /\ \A j \in 1..Len(re) : text[start + j] \in re[j]

\* Regex::find_iter: the starts of the leftmost non-overlapping matches from
\* offset `at` on; the search resumes at the end of each match.
RECURSIVE find_iter(_, _, _)
find_iter(text, re, at) ==
    IF at + Len(re) > Len(text) THEN <<>>
    ELSE IF IsMatchAt(text, re, at)
    THEN <<at>> \o find_iter(text, re, at + Len(re))
    ELSE find_iter(text, re, at + 1)

\* .map(|m| indices.push(m.start() + position))
PushIndices(starts, position) == [i \in 1..Len(starts) |-> starts[i] + position]

\* if indices.is_empty() { return None } Some(indices)
NoneIfEmpty(indices) == IF indices = <<>> THEN None ELSE Some(indices)

\* Mutant: the empty vector is returned as Some.
find_motif_indeces_some_empty(sequence, motif) ==
    Some(PushIndices(find_iter(sequence, regex(motif), 0), motif.position))

\* Contig::find_motif_indeces
find_motif_indeces(sequence, motif) ==
    NoneIfEmpty(PushIndices(find_iter(sequence, regex(motif), 0),
                            motif.position))

\* Contig::find_complement_motif_indeces, complement_motif given.
ComplementIndices(sequence, complement_motif) ==
    NoneIfEmpty(PushIndices(find_iter(sequence, regex(complement_motif), 0),
                            complement_motif.position))

\* Mutant: the offset is the motif's own position, not the complement's.
find_complement_motif_indeces_own_position(sequence, motif) ==
    NoneIfEmpty(PushIndices(find_iter(sequence,
                                      regex(reverse_complement(motif)), 0),
                            motif.position))

\* Contig::find_complement_motif_indeces
find_complement_motif_indeces(sequence, motif) ==
    ComplementIndices(sequence, reverse_complement(motif))

\* ------------------------------------------------------ specification SpecScan
\* Sequences over Bases of length 0..n.
SeqsUpTo(alphabet, n) == UNION {[1..k -> alphabet] : k \in 0..n}

\* The motifs scanned for: each sequence with each position inside it.
MotifSequences ==
    {<<"A", "C">>, <<"A", "A">>, <<"A", "T">>, <<"A", "C", "A">>,
     <<"G", "N", "C">>, <<"C", "W">>}

Motifs ==
    UNION {{Motif(q, "SixMA", p) : p \in 0..(Len(q) - 1)} : q \in MotifSequences}

InitScan ==
    /\ sc_sequence \in SeqsUpTo(Bases, MaxSeqLen)
    /\ sc_motif \in Motifs
    /\ sc_op = "none"
    /\ sc_result = None
    /\ ReaderIdle
    /\ LoopIdle
    /\ EvalIdle
    /\ WriteIdle
    /\ IupacIdle
    /\ BuildIdle

\* contig.find_motif_indeces(&motif)
ScanMotif ==
    /\ sc_op' = "find"
    /\ sc_result' = find_motif_indeces(sc_sequence, sc_motif)
    /\ UNCHANGED <<sc_sequence, sc_motif, notScVars>>

\* contig.find_complement_motif_indeces(&motif)
ScanComplementMotif ==
    /\ sc_op' = "complement"
    /\ sc_result' = find_complement_motif_indeces(sc_sequence, sc_motif)
    /\ UNCHANGED <<sc_sequence, sc_motif, notScVars>>

NextScan == ScanMotif \/ ScanComplementMotif

SpecScan == InitScan /\ [][NextScan]_vars

\* =========================================================================
\* Motif pairs and motif_methylation_pattern
\* =========================================================================
\* MotifPair { forward, reverse, is_palindromic }: palindromic when the forward
\* sequence is its own reverse complement.
MotifPair(forward, reverse) ==
    [forward |-> forward, reverse |-> reverse,
     is_palindromic |-> forward.sequence = reverse_complement_sequence(forward)]

\* parse_motif_pair_string on "SEQ1_MOD1_POS1_MOD2_POS2", the parts given:
\* the partner is the reverse complement sequence, its position
\* len - POS2 - 1.
parse_motif_pair_string(sequence_1, mod_type_1, position_1, mod_type_2, position_2) ==
    MotifPair(Motif(sequence_1, mod_type_1, position_1),
              Motif(reverse_complement_sequence(
                        Motif(sequence_1, mod_type_1, position_1)),
                    mod_type_2, Len(sequence_1) - position_2 - 1))

\* The two u8 operands of mod_position_shift (main.rs:117-118).
ShiftMinuend(pair) == reverse_complement(pair.reverse).position
ShiftSubtrahend(pair) == pair.forward.position

\* The u8 subtraction overflows: a panic where the build checks overflow.
ShiftOverflows(pair) == ShiftMinuend(pair) < ShiftSubtrahend(pair)

\* mod_position_shift where the subtraction wraps (or does not overflow).
mod_position_shift(pair) == (ShiftMinuend(pair) - ShiftSubtrahend(pair)) % 256

\* The u32 of an integer, wrapped modulo 2^32 as unchecked u32 arithmetic
\* wraps, written as its high and low 16-bit halves.
U32(x) == <<(x \div 65536) % 65536, x % 65536>>

\* write_record, lines 222-225: one of the three u32 subtractions overflows,
\* a panic where the build checks overflow.
WriteOverflows(pair, record_1, record_2) ==
    \/ record_1.position < pair.forward.position
    \/ record_1.n_valid_cov < record_1.n_mod
    \/ record_2.n_valid_cov < record_2.n_mod

\* write_record, lines 222-265: the row written for a pair of records, its
\* integer columns (FloatColumns has the floating-point ones).
write_record(pair, record_1, record_2) ==
    [start_position |-> U32(record_1.position - pair.forward.position),
     strand |-> record_1.strand,
     mod_type_1 |-> pair.forward.mod_type,
     position_1 |-> record_1.position,
     n_mod_1 |-> record_1.n_mod,
     n_nomod_1 |-> U32(record_1.n_valid_cov - record_1.n_mod),
     mod_type_2 |-> pair.reverse.mod_type,
     position_2 |-> record_2.position,
     n_mod_2 |-> record_2.n_mod,
     n_nomod_2 |-> U32(record_2.n_valid_cov - record_2.n_mod)]

\* The keys of the two lookups of the forward scan (lines 126-141) and of
\* the reverse scan (lines 157-167).
ForwardKey1(index, pair) == <<index, "Positive", pair.forward.mod_type>>
ForwardKey2(index, pair, shift) ==
    <<index + shift, "Negative", pair.reverse.mod_type>>
ReverseKey1(index, pair) == <<index, "Negative", pair.forward.mod_type>>
ReverseKey2(index, pair, shift) ==
    <<index - shift, "Positive", pair.reverse.mod_type>>

\* Mutant: a lookup miss ends the forward scan.
RECURSIVE ForwardRowsStopAtMiss(_, _, _, _, _, _)
ForwardRowsStopAtMiss(indices, records, pair, shift, checks, rows) ==
    IF indices = <<>> THEN [pc |-> "done", rows |-> rows]
    ELSE IF ForwardKey1(Head(indices), pair) \notin DOMAIN records
    THEN [pc |-> "done", rows |-> rows]
    ELSE IF ForwardKey2(Head(indices), pair, shift) \notin DOMAIN records
    THEN [pc |-> "done", rows |-> rows]
    ELSE IF checks /\ WriteOverflows(pair,
                         records[ForwardKey1(Head(indices), pair)],
                         records[ForwardKey2(Head(indices), pair, shift)])
    THEN [pc |-> "panic_forward_write", rows |-> rows]
    ELSE ForwardRowsStopAtMiss(Tail(indices), records, pair, shift, checks,
            Append(rows,
                write_record(pair,
                    records[ForwardKey1(Head(indices), pair)],
                    records[ForwardKey2(Head(indices), pair, shift)])))

\* motif_methylation_pattern, lines 125-143: the forward strand scan, after
\* the rows written so far.
RECURSIVE ForwardRows(_, _, _, _, _, _)
ForwardRows(indices, records, pair, shift, checks, rows) ==
    IF indices = <<>> THEN [pc |-> "done", rows |-> rows]
    ELSE IF ForwardKey1(Head(indices), pair) \notin DOMAIN records
    THEN ForwardRows(Tail(indices), records, pair, shift, checks, rows)
    ELSE IF ForwardKey2(Head(indices), pair, shift) \notin DOMAIN records
    THEN ForwardRows(Tail(indices), records, pair, shift, checks, rows)
    ELSE IF checks /\ WriteOverflows(pair,
                         records[ForwardKey1(Head(indices), pair)],
                         records[ForwardKey2(Head(indices), pair, shift)])
    THEN [pc |-> "panic_forward_write", rows |-> rows]
    ELSE ForwardRows(Tail(indices), records, pair, shift, checks,
            Append(rows,
                write_record(pair,
                    records[ForwardKey1(Head(indices), pair)],
                    records[ForwardKey2(Head(indices), pair, shift)])))

\* motif_methylation_pattern, lines 156-172: the reverse strand scan, after
\* the rows written so far. index - mod_position_shift is a usize
\* subtraction: below zero it panics where the build checks overflow, and
\* wraps to a position no record has where it does not.
RECURSIVE ReverseRows(_, _, _, _, _, _)
ReverseRows(indices, records, pair, shift, checks, rows) ==
    IF indices = <<>> THEN [pc |-> "done", rows |-> rows]
    ELSE IF ReverseKey1(Head(indices), pair) \notin DOMAIN records
    THEN ReverseRows(Tail(indices), records, pair, shift, checks, rows)
    ELSE IF Head(indices) < shift
    THEN IF checks THEN [pc |-> "panic_reverse", rows |-> rows]
         ELSE ReverseRows(Tail(indices), records, pair, shift, checks, rows)
    ELSE IF ReverseKey2(Head(indices), pair, shift) \notin DOMAIN records
    THEN ReverseRows(Tail(indices), records, pair, shift, checks, rows)
    ELSE IF checks /\ WriteOverflows(pair,
                         records[ReverseKey1(Head(indices), pair)],
                         records[ReverseKey2(Head(indices), pair, shift)])
    THEN [pc |-> "panic_reverse_write", rows |-> rows]
    ELSE ReverseRows(Tail(indices), records, pair, shift, checks,
            Append(rows,
                write_record(pair,
                    records[ReverseKey1(Head(indices), pair)],
                    records[ReverseKey2(Head(indices), pair, shift)])))

\* lines 152-155: no reverse-strand match moves on to the next motif pair.
ReversePart(rev_indices, records, pair, shift, checks, rows) ==
    IF rev_indices = None THEN [pc |-> "done", rows |-> rows]
    ELSE ReverseRows(rev_indices[1], records, pair, shift, checks, rows)

\* lines 144-155, after the forward scan `forward`: a panic in it ends the
\* run, a palindromic pair skips the reverse strand.
AfterForward(sequence, records, pair, shift, checks, forward) ==
    IF forward.pc # "done" THEN forward
    ELSE IF pair.is_palindromic THEN forward
    ELSE ReversePart(find_complement_motif_indeces(sequence, pair.forward),
                     records, pair, shift, checks, forward.rows)

\* lines 121-143: no forward-strand match moves on to the next motif pair
\* (`None => continue`), the reverse strand is then not scanned.
ForwardPart(fwd_indices, sequence, records, pair, shift, checks) ==
    IF fwd_indices = None THEN [pc |-> "done", rows |-> <<>>]
    ELSE AfterForward(sequence, records, pair, shift, checks,
             ForwardRows(fwd_indices[1], records, pair, shift, checks, <<>>))

\* motif_methylation_pattern for one motif pair of the list (lines 114-173).
motif_methylation_pattern(sequence, records, pair, checks) ==
    IF checks /\ ShiftOverflows(pair)
    THEN [pc |-> "panic_shift", rows |-> <<>>]
    ELSE ForwardPart(find_motif_indeces(sequence, pair.forward), sequence,
                     records, pair, mod_position_shift(pair), checks)

\* ------------------------------------------------------ specification SpecEval
EvalBases == {"A", "T"}

MotifPairs ==
    {parse_motif_pair_string(q, "SixMA", p1, "FiveMC", p2) :
        q \in {<<"A", "A">>, <<"A", "T">>}, p1 \in 0..1, p2 \in 0..1}

Strands == {"Positive", "Negative"}
ModTypes == {"SixMA", "FiveMC"}

\* The counts of a pileup line the reader emits: one within its coverage, one
\* with n_mod above n_valid_cov (the reader does not compare the two).
Counts == {[n_mod |-> 1, n_valid_cov |-> 2], [n_mod |-> 3, n_valid_cov |-> 2]}

\* Contig.records after add_records: the records, by their key (position,
\* strand, mod_type), of a pileup that covers the positions `covered` on the
\* strands and modification types `layers`, with the counts of each strand.
RecordKeys(covered, layers) ==
    {<<q, l[1], l[2]>> : q \in covered, l \in layers}

Records(covered, layers, counts) ==
    [key \in RecordKeys(covered, layers) |->
        [position |-> key[1], strand |-> key[2], mod_type |-> key[3],
         n_mod |-> counts[key[2]].n_mod,
         n_valid_cov |-> counts[key[2]].n_valid_cov]]

InitEval ==
    /\ ev_sequence \in SeqsUpTo(EvalBases, MaxContigLen)
    /\ ev_pair \in MotifPairs
    /\ \E covered \in SUBSET (0..(Len(ev_sequence) - 1)) :
          \E layers \in SUBSET (Strands \X ModTypes) :
              \E counts \in [Strands -> Counts] :
                  ev_records = Records(covered, layers, counts)
    /\ ev_checks = FALSE
    /\ ev_pc = "start"
    /\ ev_rows = <<>>
    /\ ReaderIdle
    /\ LoopIdle
    /\ ScanIdle
    /\ WriteIdle
    /\ IupacIdle
    /\ BuildIdle

EvalReturns(checks, result) ==
    /\ ev_checks' = checks
    /\ ev_pc' = result.pc
    /\ ev_rows' = result.rows

\* motif_methylation_pattern(&contig, &motifs, out), in a build that checks
\* integer overflow (debug) or one that wraps (release).
EvalMotifPair ==
    /\ ev_pc = "start"
    /\ \E checks \in BOOLEAN :
          EvalReturns(checks,
              motif_methylation_pattern(ev_sequence, ev_records, ev_pair,
                                        checks))
    /\ UNCHANGED <<ev_sequence, ev_records, ev_pair, notEvVars>>

NextEval == EvalMotifPair

SpecEval == InitEval /\ [][NextEval]_vars

\* =========================================================================
\* f64 arithmetic of write_record (IEEE 754 binary64, round to nearest even)
\* =========================================================================
\* A double is zero, infinite, not a number, or finite: sign * M * 2^(exp-52)
\* with M its 53-bit significand, 2^52 <= M < 2^53. M is written as five
\* limbs of 13 bits, the highest first (the highest is the leading 1). The
\* quotient of two nonzero finite doubles of the magnitudes met here is a
\* nonzero finite double again; it is kept as the pair of its operands.
SignificandBits == 53
LimbBits == 13
LimbBase == 8192
NumLimbs == 5

Min(a, b) == IF a < b THEN a ELSE b
Abs(a) == IF a < 0 THEN 0 - a ELSE a

F64Zero == [kind |-> "zero"]
F64NaN == [kind |-> "nan"]
F64Inf(sign) == [kind |-> "inf", sign |-> sign]
F64Finite(sign, exp, mant) ==
    [kind |-> "finite", sign |-> sign, exp |-> exp, mant |-> mant]
F64Quotient(x, y) == [kind |-> "quotient", num |-> x, den |-> y]

\* ------------------------------------------------ integers of five limbs
LimbsLess(a, b) ==
    \E i \in 1..NumLimbs : a[i] < b[i] /\ \A j \in 1..(i - 1) : a[j] = b[j]

\* a - b for a >= b: the borrow into limb i comes from the limbs below it.
BorrowInto(a, b, i) ==
    \E j \in (i + 1)..NumLimbs :
        a[j] < b[j] /\ \A k \in (i + 1)..(j - 1) : a[k] = b[k]
LimbsSub(a, b) ==
    [i \in 1..NumLimbs |->
        (a[i] - b[i] - (IF BorrowInto(a, b, i) THEN 1 ELSE 0)) % LimbBase]

\* a + 1: the carry into limb i comes through the limbs below it.
LimbsInc(a) ==
    [i \in 1..NumLimbs |->
        IF \A j \in (i + 1)..NumLimbs : a[j] = LimbBase - 1
        THEN (a[i] + 1) % LimbBase ELSE a[i]]

\* a * 2^(13 q) and a * 2^s, a / 2^s for s < 13 (no bit is shifted out at the
\* top).
ShiftLimbs(a, q) ==
    [i \in 1..NumLimbs |-> IF i + q <= NumLimbs THEN a[i + q] ELSE 0]
ShiftLeft(a, s) ==
    [i \in 1..NumLimbs |->
        ((a[i] * 2^s) % LimbBase)
            + (IF i < NumLimbs THEN (a[i + 1] * 2^s) \div LimbBase ELSE 0)]
ShiftRight(a, s) ==
    [i \in 1..NumLimbs |->
        (a[i] \div 2^s)
            + (IF i > 1 THEN (a[i - 1] % 2^s) * 2^(LimbBits - s) ELSE 0)]

\* The number of bits of a nonzero integer.
TopLimb(a) ==
    CHOOSE t \in 1..NumLimbs : a[t] # 0 /\ \A j \in 1..(t - 1) : a[j] = 0
BitsOfLimb(v) == CHOOSE k \in 1..LimbBits : 2^(k - 1) <= v /\ v < 2^k
BitLenAt(a, t) == (NumLimbs - t) * LimbBits + BitsOfLimb(a[t])
BitLen(a) == BitLenAt(a, TopLimb(a))

\* ---------------------------------------------------------------- rounding
\* The significand plus one unit in the last place.
RoundUp(sign, exp, mant) ==
    IF \A i \in 2..NumLimbs : mant[i] = LimbBase - 1
    THEN F64Finite(sign, exp + 1, <<1, 0, 0, 0, 0>>)
    ELSE F64Finite(sign, exp, LimbsInc(mant))

\* Round to nearest, ties to even: the part cut off is above half a unit in
\* the last place, or exactly half of it.
Round(sign, exp, mant, above, tie) ==
    IF above \/ (tie /\ (mant[NumLimbs] % 2) = 1)
    THEN RoundUp(sign, exp, mant)
    ELSE F64Finite(sign, exp, mant)

\* The double nearest the nonzero integer a of len bits, in units of
\* 2^unit_exp.
FromIntegerLen(sign, a, unit_exp, len) ==
    IF len <= SignificandBits
    THEN F64Finite(sign, unit_exp + len - 1,
             ShiftLeft(ShiftLimbs(a, (SignificandBits - len) \div LimbBits),
                       (SignificandBits - len) % LimbBits))
    ELSE Round(sign, unit_exp + len - 1,
               ShiftRight(a, len - SignificandBits),
               (a[NumLimbs] % 2^(len - SignificandBits))
                   > 2^(len - SignificandBits - 1),
               (a[NumLimbs] % 2^(len - SignificandBits))
                   = 2^(len - SignificandBits - 1))
FromInteger(sign, a, unit_exp) == FromIntegerLen(sign, a, unit_exp, BitLen(a))

\* ---------------------------------------------------------------- division
\* n / c scaled by powers of two until c <= n < 2c.
RECURSIVE Normalise(_, _, _)
Normalise(n, c, exp) ==
    IF n < c THEN Normalise(2 * n, c, exp - 1)
    ELSE IF n >= 2 * c THEN Normalise(n, 2 * c, exp + 1)
    ELSE [n |-> n, c |-> c, exp |-> exp]

\* Long division, 13 bits a step: the limbs of the quotient after the
\* leading 1, and the remainder.
RECURSIVE QuotientLimbs(_, _, _)
QuotientLimbs(r, c, limbs) ==
    IF Len(limbs) = NumLimbs THEN [limbs |-> limbs, r |-> r]
    ELSE QuotientLimbs((r * LimbBase) % c, c,
                       Append(limbs, (r * LimbBase) \div c))

RoundQuotient(exp, q, c) == Round(1, exp, q.limbs, 2 * q.r > c, 2 * q.r = c)

DivNormalised(nm) ==
    RoundQuotient(nm.exp, QuotientLimbs(nm.n - nm.c, nm.c, <<1>>), nm.c)

\* `n as f64 / c as f64` for u32 n and c (both conversions are exact).
F64DivU32(n, c) ==
    IF c = 0 THEN (IF n = 0 THEN F64NaN ELSE F64Inf(1))
    ELSE IF n = 0 THEN F64Zero
    ELSE DivNormalised(Normalise(n, c, 0))

\* The literals of write_record: 1.0, 0.5 and 0.1 (the double nearest 1/10).
F64One == F64DivU32(1, 1)
F64Half == F64DivU32(1, 2)
F64Tenth == F64DivU32(1, 10)

\* ------------------------------------------------------------- subtraction
SubMagnitudes(sign, big, small, unit_exp) ==
    FromInteger(sign, LimbsSub(big, small), unit_exp)

SubAligned(a, b, unit_exp) ==
    IF a = b THEN F64Zero
    ELSE IF LimbsLess(a, b) THEN SubMagnitudes(-1, b, a, unit_exp)
    ELSE SubMagnitudes(1, a, b, unit_exp)

\* Both significands in units of 2^(lo - 52), lo the lower exponent (the
\* exponents differ by less than 13).
SubFinite(x, y, lo) ==
    SubAligned(ShiftLeft(x.mant, x.exp - lo), ShiftLeft(y.mant, y.exp - lo),
               lo - (SignificandBits - 1))

\* x - y for doubles x, y that are zero or positive finite.
F64Sub(x, y) ==
    IF y.kind = "zero" THEN x
    ELSE IF x.kind = "zero" THEN [y EXCEPT !.sign = -1]
    ELSE SubFinite(x, y, Min(x.exp, y.exp))

\* f64::abs
F64Abs(x) == IF x.kind \in {"finite", "inf"} THEN [x EXCEPT !.sign = 1] ELSE x

\* x > y for doubles x, y that are zero or positive finite.
F64Gt(x, y) ==
    IF x.kind = "zero" THEN FALSE
    ELSE IF y.kind = "zero" THEN TRUE
    ELSE \/ x.exp > y.exp
         \/ x.exp = y.exp /\ LimbsLess(y.mant, x.mant)

\* x == 0.0
F64IsZero(x) == x.kind = "zero"

RECURSIVE F64Sign(_)
F64Sign(x) ==
    IF x.kind = "quotient" THEN F64Sign(x.num) * F64Sign(x.den)
    ELSE IF x.kind \in {"finite", "inf"} THEN x.sign
    ELSE 1

\* x / y: the special cases of IEEE 754 division, else the quotient.
F64Div(x, y) ==
    IF x.kind = "nan" \/ y.kind = "nan" THEN F64NaN
    ELSE IF x.kind = "inf"
    THEN (IF y.kind = "inf" THEN F64NaN ELSE F64Inf(x.sign * F64Sign(y)))
    ELSE IF y.kind = "inf" THEN F64Zero
    ELSE IF y.kind = "zero"
    THEN (IF x.kind = "zero" THEN F64NaN ELSE F64Inf(F64Sign(x)))
    ELSE IF x.kind = "zero" THEN F64Zero
    ELSE F64Quotient(x, y)

\* =========================================================================
\* write_record: the floating-point columns (main.rs:224-243)
\* =========================================================================
\* lines 224, 226
mean_mod(record) == F64DivU32(record.n_mod, record.n_valid_cov)

\* lines 229-230
abs_methylation_diff(record_1, record_2) ==
    F64Abs(F64Sub(mean_mod(record_1), mean_mod(record_2)))

\* lines 231-232
odds(record) == F64Div(mean_mod(record), F64Sub(F64One, mean_mod(record)))

\* lines 233-238
odds_ratio(odds_1, odds_2) ==
    IF F64IsZero(odds_2) \/ F64IsZero(odds_1) THEN F64NaN
    ELSE F64Div(odds_1, odds_2)

\* Mutant: the boundaries fall in the upper class.
classification_boundary_upper(x) ==
    IF ~F64Gt(F64Half, x) THEN "differential"
    ELSE IF ~F64Gt(F64Tenth, x) THEN "moderately differential"
    ELSE "non-differential"

\* lines 239-243
classification(x) ==
    IF F64Gt(x, F64Half) THEN "differential"
    ELSE IF F64Gt(x, F64Tenth) THEN "moderately differential"
    ELSE "non-differential"

\* The floating-point columns of the row, lines 260-262.
FloatColumns(record_1, record_2) ==
    [abs_methylation_diff |-> abs_methylation_diff(record_1, record_2),
     odds_ratio |-> odds_ratio(odds(record_1), odds(record_2)),
     classification |->
         classification(abs_methylation_diff(record_1, record_2))]

\* ----------------------------------------------------- specification SpecWrite
MaxCov == 10

\* The pair and the keys of the two records written: a forward-strand hit of
\* AA_a_0_m_1 at index 0.
WritePair == parse_motif_pair_string(<<"A", "A">>, "SixMA", 0, "FiveMC", 1)

WriteRecordOf(key, n_mod, n_valid_cov) ==
    [position |-> key[1], strand |-> key[2], mod_type |-> key[3],
     n_mod |-> n_mod, n_valid_cov |-> n_valid_cov]

\* The records the reader emits with min_cov >= 1: coverage at least 1, n_mod
\* up to one above it (the reader does not compare the two).
WriteRecords(key) ==
    {r \in {WriteRecordOf(key, n, c) :
                n \in 0..(MaxCov + 1), c \in 1..MaxCov} :
        r.n_mod <= r.n_valid_cov + 1}

InitWrite ==
    /\ wr_record_1 \in WriteRecords(ForwardKey1(0, WritePair))
    /\ wr_record_2 \in WriteRecords(ForwardKey2(0, WritePair, 1))
    /\ wr_checks = FALSE
    /\ wr_pc = "start"
    /\ wr_row = <<>>
    /\ ReaderIdle
    /\ LoopIdle
    /\ ScanIdle
    /\ EvalIdle
    /\ IupacIdle
    /\ BuildIdle

WriteReturns(checks, pc, row) ==
    /\ wr_checks' = checks
    /\ wr_pc' = pc
    /\ wr_row' = row

\* write_record(motif_pair, record_1, record_2), in a build that checks
\* integer overflow or one that wraps.
WriteRecord ==
    /\ wr_pc = "start"
    /\ \E checks \in BOOLEAN :
          IF checks /\ WriteOverflows(WritePair, wr_record_1, wr_record_2)
          THEN WriteReturns(checks, "panic", <<>>)
          ELSE WriteReturns(checks, "written",
                   write_record(WritePair, wr_record_1, wr_record_2)
                       @@ FloatColumns(wr_record_1, wr_record_2))
    /\ UNCHANGED <<wr_record_1, wr_record_2, notWrVars>>

NextWrite == WriteRecord

SpecWrite == InitWrite /\ [][NextWrite]_vars

\* =========================================================================
\* IupacBase::complement over the bases of a motif
\* =========================================================================
InitIupac ==
    /\ iu_original \in SeqsUpTo(IupacBase, MaxMotifLen)
    /\ iu_bases = iu_original
    /\ iu_applied = 0
    /\ ReaderIdle
    /\ LoopIdle
    /\ ScanIdle
    /\ EvalIdle
    /\ WriteIdle
    /\ BuildIdle

\* b.complement() for every base b (followed, the second time, by the
\* complement of the result).
ComplementBases ==
    /\ iu_applied < 2
    /\ iu_bases' = [i \in 1..Len(iu_bases) |-> complement(iu_bases[i])]
    /\ iu_applied' = iu_applied + 1
    /\ UNCHANGED <<iu_original, notIuVars>>

NextIupac == ComplementBases

SpecIupac == InitIupac /\ [][NextIupac]_vars

\* =========================================================================
\* GenomeWorkSpaceBuilder (specification SpecBuild)
\* =========================================================================
MaxChunks == 2         \* chunks in a batch
MaxChunkRecords == 2   \* records in a chunk

\* Contig::new: a contig with no records. Contig.records is a map from
\* (position, strand, mod_type) to the record; the sequence plays no part here.
Contig(reference) == [reference |-> reference, records |-> <<>>]

\* Contig::add_record: HashMap::insert replaces the record of an equal key.
add_record(records, record) ==
    (<<record.position, record.strand, record.mod_type>> :> record) @@ records

\* Contig::add_records: the loop over the chunk's records, from record i on.
RECURSIVE add_records(_, _, _)
add_records(records, chunk_records, i) ==
    IF i > Len(chunk_records) THEN records
    ELSE add_records(add_record(records, chunk_records[i]), chunk_records, i + 1)

\* GenomeWorkSpaceBuilder::add_contig: HashMap::insert of a clone of the
\* contig, in place of any contig already held under that reference.
add_contig(contigs, contig) == (contig.reference :> contig.records) @@ contigs

\* GenomeWorkSpaceBuilder::push_records, the contig being there.
push_records(contigs, chunk) ==
    [contigs EXCEPT ![chunk.reference] = add_records(@, chunk.records, 1)]

\* The contigs of the reference FASTA, and the references a chunk may name.
FastaReferences == {"A", "B"}
ChunkReferences == {"A", "B", "C"}

ChunkRecord(position, n_mod) ==
    [position |-> position, strand |-> "Positive", mod_type |-> "SixMA",
     n_mod |-> n_mod, n_valid_cov |-> 2]

\* The chunks load_n_chunks hands over: a reference and at least one record.
Chunks ==
    {[reference |-> ref, records |-> rs] :
        ref \in ChunkReferences,
        rs \in SeqsUpTo({ChunkRecord(p, n) : p \in 0..1, n \in 1..2},
                        MaxChunkRecords) \ {<<>>}}

\* main.rs:73-75: load_n_chunks returned Some(chunks), the builder is new.
InitBuild ==
    /\ ws_batch \in SeqsUpTo(Chunks, MaxChunks) \ {<<>>}
    /\ ws_next = 1
    /\ ws_pc = "add_contig"
    /\ ws_contigs = <<>>
    /\ ReaderIdle
    /\ LoopIdle
    /\ ScanIdle
    /\ EvalIdle
    /\ WriteIdle
    /\ IupacIdle

\* main.rs:80: builder.add_contig(reference.get(contig_id).unwrap().clone());
\* the unwrap panics when the FASTA has no contig of the chunk's reference.
AddContig ==
    /\ ws_pc = "add_contig"
    /\ IF ws_batch[ws_next].reference \in FastaReferences
       THEN /\ ws_contigs' = add_contig(ws_contigs,
                                        Contig(ws_batch[ws_next].reference))
            /\ ws_pc' = "push_records"
       ELSE /\ ws_pc' = "panicked"
            /\ UNCHANGED ws_contigs
    /\ UNCHANGED <<ws_batch, ws_next, notWsVars>>

\* main.rs:82: builder.push_records(chunk), then the next chunk of the batch.
\* expect("Could not find contig") panics when the contig is not there.
PushRecords ==
    /\ ws_pc = "push_records"
    /\ IF ws_batch[ws_next].reference \in DOMAIN ws_contigs
       THEN /\ ws_contigs' = push_records(ws_contigs, ws_batch[ws_next])
            /\ ws_pc' = IF ws_next < Len(ws_batch) THEN "add_contig" ELSE "build"
            /\ ws_next' = IF ws_next < Len(ws_batch) THEN ws_next + 1 ELSE ws_next
       ELSE /\ ws_pc' = "panicked"
            /\ UNCHANGED <<ws_contigs, ws_next>>
    /\ UNCHANGED <<ws_batch, notWsVars>>

\* main.rs:84: builder.build() moves the contigs into the workspace.
Build ==
    /\ ws_pc = "build"
    /\ ws_pc' = "built"
    /\ UNCHANGED <<ws_batch, ws_next, ws_contigs, notWsVars>>

NextBuild == AddContig \/ PushRecords \/ Build

SpecBuild == InitBuild /\ [][NextBuild]_vars

\* =========================================================================
\* Claims about the scans (specification SpecScan)
\* =========================================================================
\* The sequences of the tests of sequence.rs (lines 140-180).
TestAcgt == <<"A", "C", "G", "T", "A", "C", "G", "T", "A", "C", "G", "T",
    "A", "C", "G", "T">>
TestCcgga ==
    <<"A", "C", "C", "C", "C", "G", "G", "A", "G", "G", "T", "C",
    "G", "T", "A", "C", "G", "C", "C", "G", "G", "A", "T", "C",
    "C", "G", "G", "T", "A", "C", "C", "G", "G", "A", "C", "G",
    "T", "A", "C", "C", "G", "G", "T", "C", "G", "C", "C", "G",
    "G", "A", "T">>
TestCcggaComplement ==
    <<"A", "C", "C", "T", "C", "C", "G", "G", "C", "C", "G", "G",
    "A", "G", "G", "T", "C", "G", "T", "A", "C", "G", "C", "C",
    "G", "G", "A", "T", "C", "C", "G", "G", "T", "C", "C", "G",
    "G", "T", "C", "C", "G", "G", "T", "A", "C", "C", "G", "G",
    "A", "C", "G", "T", "A", "C", "C", "G", "G", "T", "C", "G",
    "C", "C", "G", "G", "A", "T">>
TestCctcc == <<"C", "C", "T", "C", "C", "T", "C", "C", "T", "C", "C", "T",
    "C", "C", "T", "C", "C">>
TestGgagg == <<"G", "G", "A", "G", "G", "A", "G", "G", "A", "G", "G", "A",
    "G", "G", "A", "G", "G">>

\* starts are exactly the leftmost non-overlapping matches of re in text:
\* each is a match, each begins at or after the end of the one before, and
\* every other match of re begins inside a reported match.
LeftmostNonOverlapping(starts, text, re) ==
    /\ \A i \in 1..Len(starts) : IsMatchAt(text, re, starts[i])
    /\ \A i \in 1..(Len(starts) - 1) : starts[i + 1] - starts[i] >= Len(re)
    /\ \A m \in 0..Len(text) :
          IsMatchAt(text, re, m) =>
              \/ \E i \in 1..Len(starts) : starts[i] = m
              \/ \E i \in 1..Len(starts) :
                    starts[i] < m /\ m < starts[i] + Len(re)

\* indices, each lowered by offset.
StartsOf(indices, offset) == [i \in 1..Len(indices) |-> indices[i] - offset]

\* C9: find_motif_indeces returns None exactly when the motif has no match
\* and never Some of an empty list; otherwise the indices are strictly
\* ascending, consecutive ones differ by at least the motif length, and they
\* are match_start + motif.position for exactly the leftmost non-overlapping
\* matches; on the test sequences it returns the lists of the tests.
FindMotifIndecesLeftmost ==
    /\ find_motif_indeces(TestAcgt, Motif(<<"A", "C", "G", "T">>, "SixMA", 0))
           = Some(<<0, 4, 8, 12>>)
    /\ find_motif_indeces(TestCcgga,
                          Motif(<<"C", "C", "G", "G", "A">>, "SixMA", 4))
           = Some(<<7, 21, 33, 49>>)
    /\ sc_op = "find" =>
          /\ sc_result # Some(<<>>)
          /\ sc_result = None <=>
                \A m \in 0..Len(sc_sequence) :
                    ~IsMatchAt(sc_sequence, regex(sc_motif), m)
          /\ sc_result # None =>
                /\ \A i \in 1..(Len(sc_result[1]) - 1) :
                      /\ sc_result[1][i] < sc_result[1][i + 1]
                      /\ sc_result[1][i + 1] - sc_result[1][i]
                             >= Len(sc_motif.sequence)
                /\ LeftmostNonOverlapping(
                       StartsOf(sc_result[1], sc_motif.position),
                       sc_sequence, regex(sc_motif))

\* C9 witness: two matches were reported and a third occurrence, which
\* overlaps a reported one, was not.
WitnessOverlapNotReported ==
    /\ sc_op = "find"
    /\ sc_result # None
    /\ Len(sc_result[1]) >= 2
    /\ \E m \in 0..Len(sc_sequence) :
          /\ IsMatchAt(sc_sequence, regex(sc_motif), m)
          /\ \A i \in 1..Len(sc_result[1]) :
                sc_result[1][i] - sc_motif.position # m

\* The pattern of the reverse complement, written out base by base.
ComplementPattern(motif) ==
    [j \in 1..Len(motif.sequence) |->
        to_regex(complement(motif.sequence[Len(motif.sequence) + 1 - j]))]

\* C10: find_complement_motif_indeces scans the forward sequence for the
\* leftmost non-overlapping matches of the reverse complement of the motif
\* and returns, ascending, match_start + (length - 1 - motif.position) for
\* each, or None when there is no match; on the test sequences it returns the
\* lists of the tests.
FindComplementMotifIndecesLeftmost ==
    /\ find_complement_motif_indeces(
           TestAcgt, Motif(<<"A", "C", "G", "T">>, "SixMA", 0))
           = Some(<<3, 7, 11, 15>>)
    /\ find_complement_motif_indeces(
           TestCcggaComplement, Motif(<<"C", "C", "G", "G", "A">>, "SixMA", 4))
           = Some(<<3, 27, 32, 37>>)
    /\ find_complement_motif_indeces(
           TestCctcc, Motif(<<"C", "C", "T", "C", "C">>, "FiveMC", 0)) = None
    /\ find_complement_motif_indeces(
           TestGgagg, Motif(<<"C", "C", "T", "C", "C">>, "FiveMC", 0))
           = Some(<<4, 10, 16>>)
    /\ sc_op = "complement" =>
          /\ sc_result # Some(<<>>)
          /\ sc_result = None <=>
                \A m \in 0..Len(sc_sequence) :
                    ~IsMatchAt(sc_sequence, ComplementPattern(sc_motif), m)
          /\ sc_result # None =>
                /\ \A i \in 1..(Len(sc_result[1]) - 1) :
                      sc_result[1][i] < sc_result[1][i + 1]
                /\ LeftmostNonOverlapping(
                       StartsOf(sc_result[1],
                                Len(sc_motif.sequence) - 1 - sc_motif.position),
                       sc_sequence, ComplementPattern(sc_motif))

\* C10 witness: two reverse-strand matches of a motif that is not its own
\* reverse complement, with the modified base at the motif's first position.
WitnessComplementTwoMatches ==
    /\ sc_op = "complement"
    /\ sc_result # None
    /\ Len(sc_result[1]) >= 2
    /\ reverse_complement_sequence(sc_motif) # sc_motif.sequence
    /\ sc_motif.position = 0

\* =========================================================================
\* Claims about motif_methylation_pattern (specification SpecEval)
\* =========================================================================
OrEmpty(option) == IF option = None THEN <<>> ELSE option[1]

\* The indices the two scans of the contig return for the forward motif.
FwdIndices == OrEmpty(find_motif_indeces(ev_sequence, ev_pair.forward))
RevIndices ==
    OrEmpty(find_complement_motif_indeces(ev_sequence, ev_pair.forward))

\* The rows written for an index on a strand: the first record of a row is
\* the record at the index.
RowsAt(strand, index) ==
    {k \in 1..Len(ev_rows) :
        ev_rows[k].strand = strand /\ ev_rows[k].position_1 = index}

\* Both records of a forward-strand (reverse-strand) occurrence exist.
FwdKey1(index) == ForwardKey1(index, ev_pair)
FwdKey2(index) == ForwardKey2(index, ev_pair, mod_position_shift(ev_pair))
RevKey1(index) == ReverseKey1(index, ev_pair)
RevKey2(index) == ReverseKey2(index, ev_pair, mod_position_shift(ev_pair))
FwdHit(index) ==
    FwdKey1(index) \in DOMAIN ev_records /\ FwdKey2(index) \in DOMAIN ev_records
RevHit(index) ==
    RevKey1(index) \in DOMAIN ev_records /\ RevKey2(index) \in DOMAIN ev_records

\* The forward scan wrote one row for each index with both records, none for
\* any other, and each row pairs the two records of its index.
ForwardRowsExact ==
    /\ \A i \in 1..Len(FwdIndices) :
          Cardinality(RowsAt("Positive", FwdIndices[i]))
              = IF FwdHit(FwdIndices[i]) THEN 1 ELSE 0
    /\ \A k \in 1..Len(ev_rows) :
          ev_rows[k].strand = "Positive" =>
              /\ \E i \in 1..Len(FwdIndices) :
                    FwdIndices[i] = ev_rows[k].position_1
              /\ ev_rows[k].mod_type_1 = FwdKey1(ev_rows[k].position_1)[3]
              /\ ev_rows[k].position_2 = FwdKey2(ev_rows[k].position_1)[1]
              /\ ev_rows[k].mod_type_2 = FwdKey2(ev_rows[k].position_1)[3]
              /\ ev_rows[k].n_mod_2
                     = ev_records[FwdKey2(ev_rows[k].position_1)].n_mod

\* C4 (as claimed): when the evaluation of a pair has finished, every
\* forward-strand occurrence with both records has exactly one row of the
\* forward scan; for a pair that is not palindromic every reverse-strand
\* occurrence with both records has exactly one row of the reverse scan, also
\* when the forward motif has no forward-strand match; for a palindromic pair
\* the reverse scan wrote nothing.
EachOccurrenceReportedOnce ==
    ev_pc = "done" =>
        /\ ForwardRowsExact
        /\ IF ev_pair.is_palindromic
           THEN \A k \in 1..Len(ev_rows) : ev_rows[k].strand # "Negative"
           ELSE \A i \in 1..Len(RevIndices) :
                   Cardinality(RowsAt("Negative", RevIndices[i]))
                       = IF RevHit(RevIndices[i]) THEN 1 ELSE 0

\* The forward scan has run to its end: the evaluation finished, or panicked
\* only later, in the reverse scan.
ForwardScanCompleted ==
    ev_pc \in {"done", "panic_reverse", "panic_reverse_write"}

\* C5: once the forward scan has run to its end, each index of
\* find_motif_indeces(forward) has exactly one row if and only if the contig
\* holds the record at (index, Positive, forward.mod_type) and the record at
\* (index + mod_position_shift, Negative, reverse.mod_type); an index that
\* misses either has none, and the indices after it are still scanned.
ForwardScanPairsRecords == ForwardScanCompleted => ForwardRowsExact

\* C5 witness: the scan skipped an index whose partner record is missing and
\* wrote the row of a later index.
WitnessRowAfterSkippedIndex ==
    /\ ev_pc = "done"
    /\ \E i, j \in 1..Len(FwdIndices) :
          /\ i < j
          /\ FwdKey1(FwdIndices[i]) \in DOMAIN ev_records
          /\ FwdKey2(FwdIndices[i]) \notin DOMAIN ev_records
          /\ RowsAt("Positive", FwdIndices[i]) = {}
          /\ Cardinality(RowsAt("Positive", FwdIndices[j])) = 1

\* =========================================================================
\* Claims about write_record (specification SpecWrite)
\* =========================================================================
\* d of the row written, computed as write_record computes it (in f64).
RowDifference == abs_methylation_diff(wr_record_1, wr_record_2)

\* The exact difference |n_mod_1/n_valid_cov_1 - n_mod_2/n_valid_cov_2| as
\* the fraction ExactNum / ExactDen.
ExactNum ==
    Abs(wr_record_1.n_mod * wr_record_2.n_valid_cov
            - wr_record_2.n_mod * wr_record_1.n_valid_cov)
ExactDen == wr_record_1.n_valid_cov * wr_record_2.n_valid_cov

OddsUndefinedOrZero(record) ==
    record.n_mod = record.n_valid_cov \/ record.n_mod = 0

WithinCoverage(record) == record.n_mod <= record.n_valid_cov

\* C12 (as claimed): the odds ratio of a row written for two records with
\* n_mod <= n_valid_cov is not-a-number whenever either record has
\* mean_mod == 1.0 or odds exactly zero, and is odds_1 / odds_2 in every
\* other case.
OddsRatioNaNWhenUndefined ==
    (/\ wr_pc = "written"
     /\ WithinCoverage(wr_record_1)
     /\ WithinCoverage(wr_record_2)) =>
        IF OddsUndefinedOrZero(wr_record_1) \/ OddsUndefinedOrZero(wr_record_2)
        THEN wr_row.odds_ratio = F64NaN
        ELSE wr_row.odds_ratio = F64Div(odds(wr_record_1), odds(wr_record_2))

\* =========================================================================
\* Claims about IupacBase::complement (specification SpecIupac)
\* =========================================================================
SelfComplementary == {"S", "W", "N"}

\* C13: there are 15 symbols; complementing each base twice gives the base
\* back, and complementing it once leaves it unchanged exactly when it is S,
\* W or N.
ComplementIsInvolution ==
    /\ Cardinality(IupacBase) = 15
    /\ iu_applied = 2 => iu_bases = iu_original
    /\ iu_applied = 1 =>
          \A i \in 1..Len(iu_original) :
              iu_bases[i] = iu_original[i]
                  <=> iu_original[i] \in SelfComplementary

\* C13 witness: D and N were complemented twice, D through H.
WitnessComplementedTwice ==
    /\ iu_applied = 2
    /\ iu_original = <<"D", "N">>
    /\ iu_bases = <<"D", "N">>

\* =========================================================================
\* Claims about the partner offset and the motif start (specification SpecEval)
\* =========================================================================
\* POS1 and POS2 of the string "SEQ1_MOD1_POS1_MOD2_POS2" the pair was parsed
\* from (parse_motif_pair_string stores POS2 as len - POS2 - 1).
Pos1 == ev_pair.forward.position
Pos2 == Len(ev_pair.forward.sequence) - 1 - ev_pair.reverse.position

\* C14 (as claimed): whenever a pair has been evaluated, mod_position_shift
\* was computed without overflow and is the signed offset POS2 - POS1, also
\* when POS2 < POS1, and the partner of every row is at index + (POS2 - POS1)
\* on the forward scan and at index - (POS2 - POS1) on the reverse scan.
ShiftIsSignedOffset ==
    ev_pc \notin {"idle", "start"} =>
        /\ ev_pc # "panic_shift"
        /\ mod_position_shift(ev_pair) = Pos2 - Pos1
        /\ \A k \in 1..Len(ev_rows) :
              ev_rows[k].position_2
                  = IF ev_rows[k].strand = "Positive"
                    THEN ev_rows[k].position_1 + (Pos2 - Pos1)
                    ELSE ev_rows[k].position_1 - (Pos2 - Pos1)

\* Every record of the contig has n_mod <= n_valid_cov.
RecordsWithinCoverage ==
    \A key \in DOMAIN ev_records :
        ev_records[key].n_mod <= ev_records[key].n_valid_cov

\* The start of the occurrence a row was written for: the index of the
\* modified base less its place in the motif matched, the forward motif on the
\* forward scan and its reverse complement on the reverse scan.
MatchStart(row) ==
    IF row.strand = "Positive" THEN row.position_1 - Pos1
    ELSE row.position_1 - reverse_complement(ev_pair.forward).position

\* C15 (as claimed): on a contig whose records have n_mod <= n_valid_cov no
\* write_record call panics, so record_1.position - forward.position does not
\* underflow, and the start position of every row written, forward and
\* reverse hits alike, is the start of the occurrence matched.
StartPositionIsMatchStart ==
    RecordsWithinCoverage =>
        /\ ev_pc \notin {"panic_forward_write", "panic_reverse_write"}
        /\ \A k \in 1..Len(ev_rows) :
              ev_rows[k].start_position = U32(MatchStart(ev_rows[k]))

\* =========================================================================
\* Claims about the batch loop of memopair (specification SpecLoop)
\* =========================================================================
\* C16: the loop ends, left on eof_reached unless a panic or a failed batch
\* ended the run; every pass reads at least one more line or sets
\* eof_reached; eof_reached stays true once set; and while it is true the
\* lookahead buffer is empty, every line has been read and every accepted
\* line is in a chunk.
BatchLoopTerminates ==
    /\ <>(mp_pc \in {"done", "aborted"})
    /\ [](mp_pc = "done" => eof_reached)
    /\ [](eof_reached =>
            /\ buffer = <<>>
            /\ rd_pos = Len(stream)
            /\ EmittedRecords = ParsedLines(1))
    /\ [][eof_reached => eof_reached']_vars
    /\ [][rd_pos' > rd_pos \/ eof_reached']_vars

\* C16 witness: the loop was left on eof_reached after three lines went out in
\* two chunks.
WitnessLoopLeftAtEof ==
    /\ mp_pc = "done"
    /\ Len(stream) = 3
    /\ Len(chunks) = 2
    /\ Len(EmittedRecords) = 3

\* =========================================================================
\* Claims about the workspace of a batch (specification SpecBuild)
\* =========================================================================
\* The records of the chunks i..Len(batch) of the batch that name reference,
\* merged in order into records, the last record of a key winning.
RECURSIVE MergedFrom(_, _, _, _)
MergedFrom(records, batch, reference, i) ==
    IF i > Len(batch) THEN records
    ELSE IF batch[i].reference = reference
    THEN MergedFrom(add_records(records, batch[i].records, 1), batch, reference, i + 1)
    ELSE MergedFrom(records, batch, reference, i + 1)

BatchReferences == {ws_batch[i].reference : i \in 1..Len(ws_batch)}

\* C17: the workspace built from a batch holds, for each contig the batch
\* names, the records of every chunk of the batch naming it, one per
\* (position, strand, modification type), the last record of a key winning.
WorkspaceHoldsEveryChunk ==
    ws_pc = "built" =>
        /\ DOMAIN ws_contigs = BatchReferences
        /\ \A reference \in BatchReferences :
              ws_contigs[reference] = MergedFrom(<<>>, ws_batch, reference, 1)

====
